---- MODULE Spec2Model ----
(***************************************************************************)
(* A model of rstar's axis aligned bounding box, AABB<P>                   *)
(* (src/rstar/src/structures/aabb.rs).                                     *)
(*                                                                         *)
(* A point is a sequence of `dim` scalars (the source's nth(i) is 0-based, *)
(* the sequences here are 1-based).  A scalar is a signed integer of       *)
(* ScalarBits bits; +, - and * wrap modulo 2^ScalarBits, as the arithmetic *)
(* of a release build does.  An AABB is a record [lower, upper].           *)
(*                                                                         *)
(* The state is one AABB value (self, NoBox before a constructor is called) *)
(* together with the record of the call made last: the method (op), the receiver before the call     *)
(* (recv), the arguments (other, point, points) and the value returned     *)
(* (ret).  op = "none" when no call is recorded.                           *)
(*                                                                         *)
(* Spec makes the constructors, merge, merged, intersects and min_point    *)
(* over the coordinates MIN_SCALAR, 0 and MAX_SCALAR; SpecDist and         *)
(* SpecArea make the distance and the area queries over small coordinates, *)
(* where the arithmetic does not overflow.                                 *)
(***************************************************************************)
EXTENDS Integers, Sequences, FiniteSets

VARIABLES dim, self, op, recv, other, point, points, ret

vars == <<dim, self, op, recv, other, point, points, ret>>

\* ------------------------------------------------------------- bounds

\* The largest P::DIMENSIONS the model instantiates.
MaxDim == 2
\* Corner coordinates of the arithmetic specifications are 0..CoordMax and
\* their query coordinates -1..CoordMax.
CoordMax == 2
\* The longest sequence handed to from_points.
MaxPoints == 2
\* The width w of the signed integer scalar.
ScalarBits == 8

\* ------------------------------------------------------------- scalars

Modulus == 2 ^ ScalarBits
\* P::Scalar::max_value() and P::Scalar::min_value()
MAX_SCALAR == (2 ^ (ScalarBits - 1)) - 1
MIN_SCALAR == 0 - (2 ^ (ScalarBits - 1))

\* The values of P::Scalar.
Scalar == MIN_SCALAR..MAX_SCALAR

\* The two's complement value of the mathematical integer x.
Wrap(x) == ((x - MIN_SCALAR) % Modulus) + MIN_SCALAR

max_inline(a, b) == IF a > b THEN a ELSE b

abs(x) == IF x < 0 THEN Wrap(0 - x) ELSE x

\* ------------------------------------------------------------- Point

from_value(s, n) == [i \in 1..n |-> s]

Point_min_point(p, o) == [i \in DOMAIN p |-> IF p[i] < o[i] THEN p[i] ELSE o[i]]

Point_max_point(p, o) == [i \in DOMAIN p |-> IF p[i] > o[i] THEN p[i] ELSE o[i]]

\* A closure |x, y| e of the source is the function [x \in Scalar, y \in Scalar |-> e].
all_component_wise(p, o, f) == \A i \in DOMAIN p : f[p[i], o[i]]

fold(p, init, f) ==
    LET F[k \in 0..Len(p)] == IF k = 0 THEN init ELSE f[F[k - 1], p[k]]
    IN  F[Len(p)]

sub(p, o) == [i \in DOMAIN p |-> Wrap(p[i] - o[i])]

length_2(p) == fold(p, 0, [acc \in Scalar, x \in Scalar |-> Wrap(acc + Wrap(x * x))])

\* ------------------------------------------------------------- AABB

from_point(p) == [lower |-> p, upper |-> p]

\* from_corners without the componentwise min and max.
from_corners_unordered(p1, p2) == [lower |-> p1, upper |-> p2]

from_corners(p1, p2) ==
    [lower |-> Point_min_point(p1, p2), upper |-> Point_max_point(p1, p2)]

new_empty(n) ==
    [lower |-> from_value(MAX_SCALAR, n), upper |-> from_value(MIN_SCALAR, n)]

\* add_point taking the max for the lower corner too.
add_point_lower_max(box, p) ==
    [lower |-> Point_max_point(box.lower, p), upper |-> Point_max_point(box.upper, p)]

add_point(box, p) ==
    [lower |-> Point_min_point(box.lower, p), upper |-> Point_max_point(box.upper, p)]

from_points(ps, n) ==
    LET F[k \in 0..Len(ps)] ==
            IF k = 0 THEN new_empty(n) ELSE add_point(F[k - 1], ps[k])
    IN  F[Len(ps)]

\* min_point without the min against the upper corner.
min_point_unclamped_above(box, p) == Point_max_point(box.lower, p)

\* min_point with the two clamps in the other order: max(lower, min(upper, p)).
min_point_lower_last(box, p) ==
    Point_max_point(box.lower, Point_min_point(box.upper, p))

min_point(box, p) == Point_min_point(box.upper, Point_max_point(box.lower, p))

contains_point(box, p) ==
    /\ all_component_wise(box.lower, p, [x \in Scalar, y \in Scalar |-> x <= y])
    /\ all_component_wise(box.upper, p, [x \in Scalar, y \in Scalar |-> x >= y])

distance_2(box, p) ==
    IF contains_point(box, p) THEN 0 ELSE length_2(sub(min_point(box, p), p))

contains_envelope(box, o) ==
    /\ all_component_wise(box.lower, o.lower, [l \in Scalar, r \in Scalar |-> l <= r])
    /\ all_component_wise(box.upper, o.upper, [l \in Scalar, r \in Scalar |-> l >= r])

\* merged taking the max for the lower corner too.
merged_lower_max(box, o) ==
    [lower |-> Point_max_point(box.lower, o.lower),
     upper |-> Point_max_point(box.upper, o.upper)]

merged(box, o) ==
    [lower |-> Point_min_point(box.lower, o.lower),
     upper |-> Point_max_point(box.upper, o.upper)]

intersects(box, o) ==
    /\ all_component_wise(box.lower, o.upper, [l \in Scalar, r \in Scalar |-> l <= r])
    /\ all_component_wise(box.upper, o.lower, [l \in Scalar, r \in Scalar |-> l >= r])

\* area without the clamp of each extent at zero.
area_unclamped(box) ==
    fold(sub(box.upper, box.lower), 1, [acc \in Scalar, cur \in Scalar |-> Wrap(cur * acc)])

area(box) ==
    fold(sub(box.upper, box.lower), 1,
         [acc \in Scalar, cur \in Scalar |-> Wrap(max_inline(cur, 0) * acc)])

\* min_max_dist_2 whose candidates never take their one far component.
min_max_dist_2_near_only(box, p) ==
    LET l == sub(box.lower, p)
        u == sub(box.upper, p)
        min == [i \in DOMAIN p |-> IF abs(l[i]) < abs(u[i]) THEN l[i] ELSE u[i]]
        new_dist(i) == length_2(min)
        result[i \in 0..Len(p)] ==
            IF i = 0 THEN 0
            ELSE IF new_dist(i) < result[i - 1] \/ i = 1
                 THEN new_dist(i) ELSE result[i - 1]
    IN  result[Len(p)]

\* min_max_dist_2 without the `|| i == 0` that seeds the running minimum.
min_max_dist_2_unseeded(box, p) ==
    LET l == sub(box.lower, p)
        u == sub(box.upper, p)
        min == [i \in DOMAIN p |-> IF abs(l[i]) < abs(u[i]) THEN l[i] ELSE u[i]]
        max == [i \in DOMAIN p |-> IF abs(l[i]) < abs(u[i]) THEN u[i] ELSE l[i]]
        new_dist(i) == length_2([min EXCEPT ![i] = max[i]])
        result[i \in 0..Len(p)] ==
            IF i = 0 THEN 0
            ELSE IF new_dist(i) < result[i - 1] THEN new_dist(i) ELSE result[i - 1]
    IN  result[Len(p)]

\* The source's loop index i runs from 0; here the first iteration is i = 1.
min_max_dist_2(box, p) ==
    LET l == sub(box.lower, p)
        u == sub(box.upper, p)
        min == [i \in DOMAIN p |-> IF abs(l[i]) < abs(u[i]) THEN l[i] ELSE u[i]]
        max == [i \in DOMAIN p |-> IF abs(l[i]) < abs(u[i]) THEN u[i] ELSE l[i]]
        new_dist(i) == length_2([min EXCEPT ![i] = max[i]])
        result[i \in 0..Len(p)] ==
            IF i = 0 THEN 0
            ELSE IF new_dist(i) < result[i - 1] \/ i = 1
                 THEN new_dist(i) ELSE result[i - 1]
    IN  result[Len(p)]

intersection_area(box, o) ==
    area([lower |-> Point_max_point(box.lower, o.lower),
          upper |-> Point_min_point(box.upper, o.upper)])

margin_value(box) ==
    max_inline(fold(sub(box.upper, box.lower), 0,
                    [acc \in Scalar, value \in Scalar |-> Wrap(acc + value)]), 0)

\* ------------------------------------------------------------- inputs

\* Coordinates of the lifecycle specification: the scalar's two extremes and zero.
Extreme == {MIN_SCALAR, 0, MAX_SCALAR}
\* Corner and query coordinates of the arithmetic specifications: small enough
\* that no difference, square, sum or product leaves the scalar's range.
Corner == 0..CoordMax
Query == (0 - 1)..CoordMax

Pts(S) == [1..dim -> S]

SeqsUpTo(P, n) == UNION {[1..k -> P] : k \in 0..n}

\* The values a caller can hand to a method that takes an AABB: what the
\* constructors return over the coordinates S, and the receiver itself.
\* (from_points returns new_empty's value or a value from_corners returns.)
ArgBoxes(S) ==
    {new_empty(dim), self}
        \cup {from_point(p) : p \in Pts(S)}
        \cup {from_corners(p1, p2) : p1 \in Pts(S), p2 \in Pts(S)}

NoBox == [lower |-> <<>>, upper |-> <<>>]
NoArg == <<>>

\* ------------------------------------------------------------- calls

Idle == op = "none"

\* An AABB is created by a constructor, then combined by merge and consumed by
\* queries: a constructor is called while no box is bound yet, a method on the
\* box that is bound.
Unbound == Idle /\ self = NoBox
Bound == Idle /\ self # NoBox

Record(o, s, r, ob, p, ps, rt) ==
    /\ op' = o
    /\ self' = s
    /\ recv' = r
    /\ other' = ob
    /\ point' = p
    /\ points' = ps
    /\ ret' = rt
    /\ UNCHANGED dim

NewEmpty ==
    /\ Unbound
    /\ Record("new_empty", new_empty(dim), NoBox, NoBox, NoArg, NoArg, new_empty(dim))

FromPoint(S) ==
    /\ Unbound
    /\ \E p \in Pts(S) :
          Record("from_point", from_point(p), NoBox, NoBox, p, NoArg, from_point(p))

FromCorners(S) ==
    /\ Unbound
    /\ \E p1 \in Pts(S), p2 \in Pts(S) :
          LET box == from_corners(p1, p2)
          IN  Record("from_corners", box, NoBox, NoBox, NoArg, <<p1, p2>>, box)

FromPoints(S) ==
    /\ Unbound
    /\ \E ps \in SeqsUpTo(Pts(S), MaxPoints) :
          LET box == from_points(ps, dim)
          IN  Record("from_points", box, NoBox, NoBox, NoArg, ps, box)

\* merge assigns the receiver's two fields in place and returns nothing.
Merge(S) ==
    /\ Bound
    /\ \E o \in ArgBoxes(S) :
          Record("merge",
                 [lower |-> Point_min_point(self.lower, o.lower),
                  upper |-> Point_max_point(self.upper, o.upper)],
                 self, o, NoArg, NoArg, NoArg)

Merged(S) ==
    /\ Bound
    /\ \E o \in ArgBoxes(S) :
          Record("merged", self, self, o, NoArg, NoArg, merged(self, o))

Intersects(S) ==
    /\ Bound
    /\ \E o \in ArgBoxes(S) :
          Record("intersects", self, self, o, NoArg, NoArg, intersects(self, o))

IntersectionArea(S) ==
    /\ Bound
    /\ \E o \in ArgBoxes(S) :
          Record("intersection_area", self, self, o, NoArg, NoArg,
                 intersection_area(self, o))

Area ==
    /\ Bound
    /\ Record("area", self, self, NoBox, NoArg, NoArg, area(self))

MarginValue ==
    /\ Bound
    /\ Record("margin_value", self, self, NoBox, NoArg, NoArg, margin_value(self))

MinPoint(S) ==
    /\ Bound
    /\ \E q \in Pts(S) :
          Record("min_point", self, self, NoBox, q, NoArg, min_point(self, q))

Distance2(S) ==
    /\ Bound
    /\ \E q \in Pts(S) :
          Record("distance_2", self, self, NoBox, q, NoArg, distance_2(self, q))

MinMaxDist2(S) ==
    /\ Bound
    /\ \E q \in Pts(S) :
          Record("min_max_dist_2", self, self, NoBox, q, NoArg,
                 min_max_dist_2(self, q))

\* The call returns: its record is dropped.  An AABB is a Copy value, so the
\* caller either drops the box merged returned or keeps it as its current box.
Return ==
    /\ ~Idle
    /\ \E s \in {self} \cup (IF op = "merged" THEN {ret} ELSE {}) :
          Record("none", s, NoBox, NoBox, NoArg, NoArg, NoArg)

Init ==
    /\ dim \in 1..MaxDim
    /\ self = NoBox
    /\ op = "none"
    /\ recv = NoBox
    /\ other = NoBox
    /\ point = NoArg
    /\ points = NoArg
    /\ ret = NoArg

\* Construction, merging and the order queries, over the scalar's extremes.
Next ==
    \/ NewEmpty
    \/ FromPoint(Extreme)
    \/ FromCorners(Extreme)
    \/ FromPoints(Extreme)
    \/ Merge(Extreme)
    \/ Merged(Extreme)
    \/ Intersects(Extreme)
    \/ MinPoint(Extreme)
    \/ Return

Spec == Init /\ [][Next]_vars

\* The distance queries, over small coordinates.
NextDist ==
    \/ NewEmpty
    \/ FromPoint(Corner)
    \/ FromCorners(Corner)
    \/ MinPoint(Query)
    \/ Distance2(Query)
    \/ MinMaxDist2(Query)
    \/ Return

SpecDist == Init /\ [][NextDist]_vars

\* The area queries, over small coordinates.
NextArea ==
    \/ NewEmpty
    \/ FromPoint(Corner)
    \/ FromCorners(Corner)
    \/ Area
    \/ MarginValue
    \/ IntersectionArea(Corner)
    \/ Return

SpecArea == Init /\ [][NextArea]_vars

\* ------------------------------------------------------------- properties

\* lower[i] <= upper[i] in every dimension.
WellFormed(box) == \A i \in DOMAIN box.lower : box.lower[i] <= box.upper[i]

IsEmpty(box) ==
    \A i \in DOMAIN box.lower :
        box.lower[i] = MAX_SCALAR /\ box.upper[i] = MIN_SCALAR

\* Every AABB with corners over the coordinates S that is well-formed, and
\* the sentinel empty.
Obtainable(S) ==
    {b \in [lower : Pts(S), upper : Pts(S)] : WellFormed(b)} \cup {new_empty(dim)}

\* Exact (unbounded) integer arithmetic, to state results against.
Dist(a, b) == IF a < b THEN b - a ELSE a - b

RECURSIVE SqDistTo(_, _, _)
SqDistTo(a, b, k) ==
    IF k = 0 THEN 0
    ELSE SqDistTo(a, b, k - 1) + (a[k] - b[k]) * (a[k] - b[k])

SqDist(a, b) == SqDistTo(a, b, Len(a))

Clamp(x, lo, hi) == IF x < lo THEN lo ELSE IF x > hi THEN hi ELSE x

Least(S) == CHOOSE x \in S : \A y \in S : x <= y
Greatest(S) == CHOOSE x \in S : \A y \in S : x >= y

\* The arithmetic specifications' coordinates keep every intermediate value of
\* the distance and area computations within the scalar's range.
NoOverflow ==
    /\ dim * (CoordMax + 1) * (CoordMax + 1) <= MAX_SCALAR
    /\ CoordMax ^ dim <= MAX_SCALAR

\* C1: merged returns the least AABB, in the contains_envelope order, that
\* contains both operands: it contains each, every obtainable AABB containing
\* both contains it, and the sentinel empty is an identity on either side;
\* merge leaves the receiver equal to what merged returns.
C1_MergedIsLeast ==
    /\ op = "merged" =>
          /\ contains_envelope(ret, recv)
          /\ contains_envelope(ret, other)
          /\ \A c \in Obtainable(Extreme) :
                (contains_envelope(c, recv) /\ contains_envelope(c, other))
                    => contains_envelope(c, ret)
          /\ (other = new_empty(dim) => ret = recv)
          /\ (recv = new_empty(dim) => ret = other)
    /\ op = "merge" => self = merged(recv, other)

C1_Witness ==
    /\ op = "merged"
    /\ WellFormed(recv) /\ WellFormed(other)
    /\ ~contains_envelope(recv, other)
    /\ ~contains_envelope(other, recv)
    /\ ret \notin {recv, other}

\* C2: from_points returns the tightest box around its points: it contains
\* each of them, each lower bound is the least and each upper bound the
\* greatest of the points' coordinates (so a tighter bound excludes a point),
\* and no points give the sentinel empty.
C2_FromPointsIsTightest ==
    op = "from_points" =>
        /\ \A k \in DOMAIN points : contains_point(ret, points[k])
        /\ points = <<>> => ret = new_empty(dim)
        /\ points # <<>> =>
              \A i \in 1..dim :
                  /\ ret.lower[i] = Least({points[k][i] : k \in DOMAIN points})
                  /\ ret.upper[i] = Greatest({points[k][i] : k \in DOMAIN points})
        /\ \A i \in 1..dim : \A v \in Extreme :
              /\ v > ret.lower[i] =>
                    \/ points = <<>>
                    \/ \E k \in DOMAIN points :
                          ~contains_point([ret EXCEPT !.lower[i] = v], points[k])
              /\ v < ret.upper[i] =>
                    \/ points = <<>>
                    \/ \E k \in DOMAIN points :
                          ~contains_point([ret EXCEPT !.upper[i] = v], points[k])

C2_Witness ==
    /\ op = "from_points"
    /\ Len(points) >= 2
    /\ \E j \in DOMAIN points, k \in DOMAIN points :
          points[j] # ret.lower /\ points[k] # ret.upper /\ points[j] # points[k]

\* The box and the query point of scenario S6.
S6_Case ==
    /\ dim = 2
    /\ self = from_corners(<<0, 0>>, <<2, 2>>)
    /\ point = <<0 - 1, 0 - 1>>

\* C3 as stated: in scenario S6 min_max_dist_2 returns 5 and distance_2
\* returns 2.
C3_Original ==
    /\ (op = "min_max_dist_2" /\ S6_Case) => ret = 5
    /\ (op = "distance_2" /\ S6_Case) => ret = 2

\* C3 as amended: in scenario S6 min_max_dist_2 returns 10 (the nearer face in
\* one dimension, 1, and the farther face in the other, 3), and distance_2
\* returns 2.
C3_MinMaxDistOfS6 ==
    /\ (op = "min_max_dist_2" /\ S6_Case) => ret = 10
    /\ (op = "distance_2" /\ S6_Case) => ret = 2

C3_Witness == op = "min_max_dist_2" /\ S6_Case /\ distance_2(self, point) = 2

\* C4: for a well-formed AABB and any point, without overflow,
\* distance_2 >= 0 and min_max_dist_2 >= distance_2.
C4_MinMaxDistBoundsDistance ==
    (NoOverflow /\ WellFormed(self)) =>
        /\ op = "distance_2" => ret >= 0
        /\ op = "min_max_dist_2" =>
              /\ distance_2(self, point) >= 0
              /\ ret >= distance_2(self, point)

C4_Witness ==
    /\ NoOverflow
    /\ WellFormed(self)
    /\ op = "min_max_dist_2"
    /\ dim >= 2
    /\ distance_2(self, point) > 0
    /\ ret > distance_2(self, point)

C6_EmptyIntersectsNothing ==
    (op = "intersects" /\ (IsEmpty(recv) \/ IsEmpty(other))) => ret = FALSE

\* C7 as stated: with wrapping arithmetic, the sentinel empty has area 0 and
\* margin 0 in every dimensionality.
C7_EmptyAreaAndMarginAreZero ==
    /\ (op = "area" /\ IsEmpty(self)) => ret = 0
    /\ (op = "margin_value" /\ IsEmpty(self)) => ret = 0

\* The product of the extents of the common part of two boxes, each extent
\* clamped at zero.
RECURSIVE OverlapTo(_, _, _)
OverlapTo(a, b, k) ==
    IF k = 0 THEN 1
    ELSE LET lo == IF a.lower[k] > b.lower[k] THEN a.lower[k] ELSE b.lower[k]
             hi == IF a.upper[k] < b.upper[k] THEN a.upper[k] ELSE b.upper[k]
         IN  OverlapTo(a, b, k - 1) * (IF hi > lo THEN hi - lo ELSE 0)

\* C8: for well-formed AABBs, without overflow, intersection_area is at most
\* either area, is not negative, is 0 when the boxes do not intersect, and is
\* the area of the box (max of lowers, min of uppers) with each extent clamped
\* at zero.
C8_IntersectionAreaBounded ==
    (NoOverflow /\ op = "intersection_area" /\ WellFormed(self) /\ WellFormed(other)) =>
        /\ ret <= area(self)
        /\ ret <= area(other)
        /\ ret >= 0
        /\ ~intersects(self, other) => ret = 0
        /\ ret = OverlapTo(self, other, dim)

C8_Witness ==
    /\ NoOverflow
    /\ op = "intersection_area"
    /\ WellFormed(self) /\ WellFormed(other)
    /\ ~intersects(self, other)
    /\ \E i \in 1..dim : self.lower[i] < other.upper[i] /\ other.lower[i] < self.upper[i]
    /\ area(self) > 0
    /\ ret = 0

\* b is a value new_empty or from_corners returns.
ConstructorValue(b) ==
    b = new_empty(dim) \/ b = from_corners(b.lower, b.upper)

\* C9: every reachable AABB, the receiver and whatever a constructor or merged
\* returned, is either exactly the sentinel empty or has lower[i] <= upper[i]
\* in every dimension.  Each is also a value a constructor returns, so the
\* arguments the merge steps draw from the constructors are all the
\* reachable values.
C9_WellFormedOrEmpty ==
    /\ self # NoBox =>
          /\ self \in Obtainable(Extreme)
          /\ IsEmpty(self) \/ WellFormed(self)
          /\ ConstructorValue(self)
    /\ op \in {"new_empty", "from_point", "from_corners", "from_points", "merged"} =>
          /\ ret \in Obtainable(Extreme)
          /\ IsEmpty(ret) \/ WellFormed(ret)
          /\ ConstructorValue(ret)

C9_Witness ==
    /\ op = "merge"
    /\ WellFormed(recv) /\ WellFormed(other)
    /\ self \notin {recv, other}
    /\ WellFormed(self)

\* x is the one of the corner coordinates lo, hi that is nearer to q.
NearerCorner(x, lo, hi, q) ==
    /\ x \in {lo, hi}
    /\ Dist(x, q) <= Dist(lo, q)
    /\ Dist(x, q) <= Dist(hi, q)

\* C10 as stated: min_point is the clamp of q to [lower, upper] in a dimension
\* where lower <= upper, and the nearer of the two corner coordinates in a
\* dimension where the box is inverted.
C10_Original ==
    op = "min_point" =>
        \A i \in 1..dim :
            /\ self.lower[i] <= self.upper[i] =>
                  ret[i] = Clamp(point[i], self.lower[i], self.upper[i])
            /\ self.lower[i] > self.upper[i] =>
                  NearerCorner(ret[i], self.lower[i], self.upper[i], point[i])

\* C10 as amended: min_point is the clamp of q to [lower, upper] in a
\* dimension where lower <= upper, and upper[i], whatever q is, in a dimension
\* where the box is inverted.
C10_MinPointClampsOrUpper ==
    op = "min_point" =>
        \A i \in 1..dim :
            /\ self.lower[i] <= self.upper[i] =>
                  ret[i] = Clamp(point[i], self.lower[i], self.upper[i])
            /\ self.lower[i] > self.upper[i] => ret[i] = self.upper[i]

C10_Witness ==
    /\ op = "min_point"
    /\ \E i \in 1..dim :
          /\ self.lower[i] > self.upper[i]
          /\ Dist(point[i], self.lower[i]) < Dist(point[i], self.upper[i])
          /\ ret[i] = self.upper[i]

====
